---- MODULE Spec2Model ----
(***************************************************************************)
(* A model of LambdaALBRouter: the ALBRouter registration list, the        *)
(* compilation of route templates into regular expressions, the scan that  *)
(* resolves a call to a registered function, the call of that function,    *)
(* and the catch_exception decorator that turns exceptions into ALB        *)
(* response dictionaries.                                                  *)
(*                                                                         *)
(* Python strings whose characters matter (route templates, paths, method  *)
(* names, placeholder names) are sequences of one-character strings.       *)
(* Message texts are atomic strings.  An optional value (Python None or a  *)
(* value) is a sequence of length at most one.                             *)
(***************************************************************************)
EXTENDS Integers, Sequences, FiniteSets, TLC

VARIABLES
    routes,     \* ALBRouter.routes: the list of (route_pattern, methods, f)
    op,         \* the last call made on the router: "init", "route" or "process"
    request,    \* the arguments of that call
    result,     \* what that call gave its caller: a return value or a raised exception
    call,       \* the call of a registered function made by serve, if any
    threads     \* for callers that run concurrently: each one's place in its
                \* call and the local variables of that call

vars == <<routes, op, request, result, call, threads>>

----------------------------------------------------------------------------
(* Values *)

None == <<>>
Some(x) == <<x>>

Return(v) == [kind |-> "return", value |-> v]
Raise(e) == [kind |-> "raise", exc |-> e]

Max(S) == CHOOSE x \in S : \A y \in S : y <= x

----------------------------------------------------------------------------
(* Characters *)

UpperLetters == <<"A","B","C","D","E","F","G","H","I","J","K","L","M",
                  "N","O","P","Q","R","S","T","U","V","W","X","Y","Z">>
LowerLetters == <<"a","b","c","d","e","f","g","h","i","j","k","l","m",
                  "n","o","p","q","r","s","t","u","v","w","x","y","z">>
Digits == {"0","1","2","3","4","5","6","7","8","9"}

Range(s) == {s[i] : i \in DOMAIN s}

\* \w of a str pattern, on ASCII
IsWordChar(c) == c \in Range(UpperLetters) \cup Range(LowerLetters) \cup Digits \cup {"_"}

\* str.lower(), on ASCII
LowerChar(c) ==
    IF c \in Range(UpperLetters)
    THEN LowerLetters[CHOOSE i \in DOMAIN UpperLetters : UpperLetters[i] = c]
    ELSE c
StrLower(s) == [i \in DOMAIN s |-> LowerChar(s[i])]

----------------------------------------------------------------------------
(* re: the part of the regular-expression language that a route template   *)
(* over word characters, "/", ".", "<", ">" and the newline can produce.   *)
(* A regular expression source is a sequence of tokens: one per character  *)
(* of the template that re.sub left alone, and one per "(?P<name>.+)" that *)
(* re.sub put in place of a "<name>".                                      *)

CharTok(c) == [t |-> "char", c |-> c]
GroupTok(name) == [t |-> "group", name |-> name]

\* The last index of the run of word characters that starts at s[i]; i-1 when
\* s[i] is no word character.
WordRunEnd(s, i) ==
    Max({k \in (i-1)..Len(s) : \A m \in i..k : IsWordChar(s[m])})

\* Where a match of <\w+> that starts at s[i] ends; 0 when there is none.
PlaceholderEnd(s, i) ==
    LET k == WordRunEnd(s, i + 1)
    IN  IF s[i] = "<" /\ k >= i + 1 /\ k + 1 <= Len(s) /\ s[k + 1] = ">"
        THEN k + 1
        ELSE 0

\* re.sub(r'(<\w+>)', r'(?P\1.+)', route_str), from index i on: the leftmost
\* matches, not overlapping, are replaced and everything else is copied.
RECURSIVE ReSub(_, _)
ReSub(s, i) ==
    IF i > Len(s) THEN <<>>
    ELSE LET e == PlaceholderEnd(s, i)
         IN  IF e # 0
             THEN <<GroupTok(SubSeq(s, i + 1, e - 1))>> \o ReSub(s, e + 1)
             ELSE <<CharTok(s[i])>> \o ReSub(s, i + 1)

\* str.isidentifier() of a nonempty run of word characters
IsIdentifier(name) == name[1] \notin Digits

GroupNames(toks) == SelectSeq(toks, LAMBDA tk : tk.t = "group")

\* The first group the parser of re rejects: its name is no identifier, or
\* names an earlier group.  0 when every group is accepted.
FirstBadGroup(toks) ==
    LET g == GroupNames(toks)
        bad == {i \in DOMAIN g :
                    \/ ~IsIdentifier(g[i].name)
                    \/ \E j \in 1..(i-1) : g[j].name = g[i].name}
    IN  IF bad = {} THEN 0 ELSE CHOOSE i \in bad : \A j \in bad : i <= j

ReError(msg) == [cls |-> "re.error", message |-> Some(msg)]

\* re.compile("^" + source + "$")
ReCompile(toks) ==
    LET g == GroupNames(toks)
        b == FirstBadGroup(toks)
    IN  IF b = 0 THEN Return([toks |-> toks])
        ELSE IF ~IsIdentifier(g[b].name)
        THEN Raise(ReError("bad character in group name"))
        ELSE Raise(ReError("redefinition of group name"))

NoMatch == [matched |-> FALSE, groupdict |-> {}]

\* The tokens from the i-th on, then "$", against path from its (j+1)-th
\* character on.  "." takes any character but a newline, ".+" is greedy and
\* gives back one character at a time, "$" matches at the end and before a
\* newline that ends the string.
RECURSIVE MatchFrom(_, _, _, _)
MatchFrom(toks, i, path, j) ==
    IF i > Len(toks)
    THEN IF j = Len(path) \/ (j = Len(path) - 1 /\ path[Len(path)] = "\n")
         THEN [matched |-> TRUE, groupdict |-> {}]
         ELSE NoMatch
    ELSE IF toks[i].t = "group"
    THEN LET ks == {k \in (j+1)..Len(path) :
                        /\ \A m \in (j+1)..k : path[m] # "\n"
                        /\ MatchFrom(toks, i + 1, path, k).matched}
         IN  IF ks = {} THEN NoMatch
             ELSE [matched |-> TRUE,
                   groupdict |-> MatchFrom(toks, i + 1, path, Max(ks)).groupdict
                                 \cup {<<toks[i].name, SubSeq(path, j + 1, Max(ks))>>}]
    ELSE IF /\ j < Len(path)
            /\ IF toks[i].c = "." THEN path[j + 1] # "\n" ELSE path[j + 1] = toks[i].c
    THEN MatchFrom(toks, i + 1, path, j + 1)
    ELSE NoMatch

\* route_pattern.match(call_path) and, of a match, match.groupdict()
PatternMatch(pattern, path) == MatchFrom(pattern.toks, 1, path, 0)

----------------------------------------------------------------------------
(* exceptions.py *)

\* An exception: its class and the message it was constructed with.
Exc(cls, message) == [cls |-> cls, message |-> message]

\* HTTPException and the classes derived from it.
HTTPClasses == {"HTTPException", "BadRequest", "Unauthorized", "Forbidden",
                "NotFound", "Conflict", "InternalServerError", "NotImplemented",
                "BadGateway"}

\* The class attribute code
ClassCode(cls) ==
    CASE cls = "BadRequest" -> Some(400)
      [] cls = "Unauthorized" -> Some(401)
      [] cls = "Forbidden" -> Some(403)
      [] cls = "NotFound" -> Some(404)
      [] cls = "Conflict" -> Some(409)
      [] cls = "InternalServerError" -> Some(500)
      [] cls = "NotImplemented" -> Some(501)
      [] cls = "BadGateway" -> Some(502)
      [] OTHER -> None

\* The class attribute description
ClassDescription(cls) ==
    CASE cls = "BadRequest" -> Some("400 Bad Request")
      [] cls = "Unauthorized" -> Some("401 Unauthorized")
      [] cls = "Forbidden" -> Some("403 Forbidden")
      [] cls = "NotFound" -> Some("404 Not Found")
      [] cls = "Conflict" -> Some("409 Conflict")
      [] cls = "InternalServerError" -> Some("500 Internal Server Error")
      [] cls = "NotImplemented" -> Some("501 Not Implemented")
      [] cls = "BadGateway" -> Some("502 Bad Gateway")
      [] OTHER -> None

\* Classes derived from BaseException and not from Exception.
BaseOnlyClasses == {"SystemExit", "KeyboardInterrupt"}

\* Whether "except Exception" catches e
IsException(e) == e.cls \notin BaseOnlyClasses

\* "code" in e.__dir__() and "description" in e.__dir__()
HasCodeAndDescription(e) == e.cls \in HTTPClasses

\* str(e) of an exception constructed with one argument
ExcStr(e) == IF e.message = None THEN "None" ELSE e.message[1]

EnvelopeFields == {"statusCode", "statusDescription", "isBase64Encoded", "headers", "body"}

Envelope(code, description, encoded, headers, body) ==
    [statusCode |-> code, statusDescription |-> description,
     isBase64Encoded |-> encoded, headers |-> headers, body |-> body]

TextPlain == ("Content-Type" :> "text/plain")
ApplicationJson == ("Content-Type" :> "application/json")

\* catch_exception with its test for code and description never succeeding
\* (as "code" in e.__dict__ would: the attributes are the class's): every
\* exception answered as a 500.
ExceptionResponseUncoded(e) ==
    Envelope(Some(500), Some("Server Error"), FALSE, TextPlain, ExcStr(e))

\* The dictionary catch_exception returns for the exception e
ExceptionResponse(e) ==
    IF HasCodeAndDescription(e)
    THEN Envelope(ClassCode(e.cls), ClassDescription(e.cls), FALSE, TextPlain, ExcStr(e))
    ELSE Envelope(Some(500), Some("Server Error"), FALSE, TextPlain, ExcStr(e))

\* catch_exception written with "except HTTPException": any other exception
\* passes through the wrapper.
CatchExceptionHTTPOnly(outcome) ==
    IF outcome.kind = "raise" /\ outcome.exc.cls \in HTTPClasses
    THEN Return(ExceptionResponse(outcome.exc))
    ELSE outcome

\* catch_exception(f)(...): given what f(...) did, what the wrapper does.
CatchException(outcome) ==
    IF outcome.kind = "raise" /\ IsException(outcome.exc)
    THEN Return(ExceptionResponse(outcome.exc))
    ELSE outcome

\* The module's exceptions dictionary, as _find_exceptions fills it: every
\* class derived from HTTPException whose code is not None, under its code.
Exceptions ==
    LET coded == {cls \in HTTPClasses : ClassCode(cls) # None}
    IN  [c \in {ClassCode(cls)[1] : cls \in coded} |->
            CHOOSE cls \in coded : ClassCode(cls) = Some(c)]

\* abort(code, message)
Abort(code, message) ==
    IF code \notin DOMAIN Exceptions
    THEN Raise(Exc("HTTPException", message))
    ELSE Raise(Exc(Exceptions[code], message))

----------------------------------------------------------------------------
(* utils.py *)

\* response(response_body, code, description, is_base64_encoded, headers);
\* headers is None or a dictionary that overrides the default one.
Response(response_body, code, description, is_base64_encoded, headers) ==
    LET response_headers ==
            IF headers # None
            THEN [k \in DOMAIN ApplicationJson \cup DOMAIN headers[1] |->
                     IF k \in DOMAIN headers[1] THEN headers[1][k] ELSE ApplicationJson[k]]
            ELSE ApplicationJson
    IN  Envelope(Some(code), Some(description), is_base64_encoded, response_headers,
                 response_body)

\* response(response_body), every other parameter at its default
ResponseOK(response_body) == Response(response_body, 200, "200 OK", FALSE, None)

----------------------------------------------------------------------------
(* Registered functions.  A function is its name, the names of the         *)
(* parameters its signature declares (none with a default, no **kwargs),   *)
(* and what its body does with them.                                       *)

ContextName == <<"c","o","n","t","e","x","t">>

Function(name, params, do) == [name |-> name, params |-> params, do |-> do]

DoResponse == [kind |-> "response"]
DoReturnNone == [kind |-> "return_none"]
DoRaise(cls, message) == [kind |-> "raise", cls |-> cls, message |-> message]
DoAbort(code, message) == [kind |-> "abort", code |-> code, message |-> message]

\* What the function received; a function that answers with response(...) puts
\* it in the body.
Received(args, context) == [args |-> args, context |-> context]

\* The body of exec_function, run with the keyword arguments args and, when
\* it was passed, the context.
FunctionBody(f, args, context) ==
    CASE f.do.kind = "response" -> Return(ResponseOK(Received(args, context)))
      [] f.do.kind = "return_none" -> Return(None)
      [] f.do.kind = "raise" -> Raise(Exc(f.do.cls, f.do.message))
      [] f.do.kind = "abort" -> Abort(f.do.code, f.do.message)

\* The names of a dictionary kept as a set of <<name, value>> pairs
Names(args) == {a[1] : a \in args}

\* exec_function(**args, context=context) when pass_context, exec_function(**args)
\* otherwise: Python binds the keyword arguments to the declared parameters
\* before the body runs.
CallFunction(f, args, pass_context, context) ==
    IF pass_context /\ ContextName \in Names(args)
    THEN Raise(Exc("TypeError", Some("got multiple values for keyword argument 'context'")))
    ELSE IF Names(args) \cup (IF pass_context THEN {ContextName} ELSE {}) # f.params
    THEN Raise(Exc("TypeError", Some("unexpected or missing keyword argument")))
    ELSE FunctionBody(f, args, IF pass_context THEN Some(context) ELSE None)

----------------------------------------------------------------------------
(* router.py *)

IsPattern(v) == "toks" \in DOMAIN v
IsEnvelope(v) == DOMAIN v = EnvelopeFields
IsCallMatch(v) == DOMAIN v = {"args", "exec_function"}

\* ALBRouter.__compile_route_path, under its catch_exception
CompileRoutePath(route_str) == CatchException(ReCompile(ReSub(route_str, 1)))

\* route_methods is a list, a str or None.
MethodList(l) == [type |-> "list", v |-> l]
MethodStr(m) == [type |-> "str", v |-> m]
MethodNone == [type |-> "None", v |-> <<>>]

\* The methods that decorator stores for route_methods
RouteMethods(route_methods) ==
    IF route_methods.type = "list"
    THEN Return([i \in DOMAIN route_methods.v |-> StrLower(route_methods.v[i])])
    ELSE IF route_methods.type = "str" /\ route_methods.v # <<>>
    THEN Raise(Exc("UnboundLocalError", Some("cannot access local variable 'methods'")))
    ELSE Return(<<>>)

\* The loop of ALBRouter.__find_call_match from the i-th registered route on.
RECURSIVE FindFrom(_, _, _, _)
FindFrom(rs, i, call_path, call_method) ==
    IF i > Len(rs) THEN Return(None)
    ELSE IF ~IsPattern(rs[i].route_pattern)
    THEN Raise(Exc("AttributeError", Some("'dict' object has no attribute 'match'")))
    ELSE LET match == PatternMatch(rs[i].route_pattern, call_path)
             methods == rs[i].methods
         IN  IF match.matched
             THEN IF methods # <<>> /\ StrLower(call_method) \in Range(methods)
                  THEN Return([args |-> match.groupdict, exec_function |-> rs[i].exec_function])
                  ELSE IF methods = <<>>
                  THEN Return([args |-> match.groupdict, exec_function |-> rs[i].exec_function])
                  ELSE FindFrom(rs, i + 1, call_path, call_method)
             ELSE FindFrom(rs, i + 1, call_path, call_method)

\* ALBRouter.__find_call_match, under its catch_exception
FindCallMatch(rs, call_path, call_method) ==
    CatchException(FindFrom(rs, 1, call_path, call_method))

\* "context" in inspect.signature(exec_function).parameters
WantsContext(f) == ContextName \in f.params

\* The body of ALBRouter.serve, given what self.__find_call_match(...) did.
\* The text of NotFound is kept without the path and the method it quotes.
ServeBody(found, context) ==
    IF found.kind = "raise" THEN found
    ELSE LET call_match == found.value
         IN  IF call_match # None
             THEN IF IsCallMatch(call_match)
                  THEN CallFunction(call_match.exec_function, call_match.args,
                                    WantsContext(call_match.exec_function), context)
                  ELSE Raise(Exc("ValueError",
                                 Some("too many values to unpack (expected 2)")))
             ELSE Raise(Exc("NotFound", Some("Route has not been registered.")))

\* ALBRouter.serve, under its catch_exception
Serve(rs, call_path, call_method, context) ==
    CatchException(ServeBody(FindCallMatch(rs, call_path, call_method), context))

NoCall == [made |-> FALSE]

\* The call of a registered function that serve makes: which function, with
\* which keyword arguments, with or without the context, and whether its body
\* was entered.
CallOf(found, context) ==
    LET call_match == found.value
    IN  IF found.kind = "return" /\ call_match # None /\ IsCallMatch(call_match)
        THEN LET f == call_match.exec_function
                 names == Names(call_match.args)
                        \cup (IF WantsContext(f) THEN {ContextName} ELSE {})
             IN  [made |-> TRUE, f |-> f, args |-> call_match.args,
                  context |-> IF WantsContext(f) THEN Some(context) ELSE None,
                  entered |-> /\ ~(WantsContext(f) /\ ContextName \in Names(call_match.args))
                              /\ names = f.params]
        ELSE NoCall

ServeCall(rs, call_path, call_method, context) ==
    CallOf(FindCallMatch(rs, call_path, call_method), context)

\* The bodies of the requests of the model, and what the decoders make of them.
JsonText == "{\"k\": \"v\"}"
QueryTextBase64 == "az12"
Bodies == {"", JsonText, "{", QueryTextBase64}

\* json.loads(body), for a body of Bodies
JsonLoads(body) ==
    IF body = JsonText THEN Return([k |-> "v"])
    ELSE Raise(Exc("JSONDecodeError", Some("Expecting value")))

\* parse_qs(b64decode(body).decode("utf-8")) with each value's first item,
\* for a body of Bodies
Base64Query(body) ==
    CASE body = QueryTextBase64 -> Return([k |-> "v"])
      [] body = "{" -> Return(<<>>)
      [] OTHER -> Raise(Exc("binascii.Error", Some("Incorrect padding")))

EventKeys == <<"httpMethod", "path", "queryStringParameters", "headers", "body">>

\* The first key of keys that event lacks; 0 when it has them all.
FirstMissing(event, keys) ==
    LET missing == {i \in DOMAIN keys : keys[i] \notin DOMAIN event}
    IN  IF missing = {} THEN 0 ELSE CHOOSE i \in missing : \A j \in missing : i <= j

KeyError(key) == Exc("KeyError", Some(key))

\* Context(method, path, query_string, headers, data)
Context(method, path, query_string, headers, data) ==
    [method |-> method, path |-> path, query_string |-> query_string,
     headers |-> headers, data |-> data]

\* The part of process_lambda_alb_event before the call of serve: the fields
\* read from the event, the body decoded, the Context built.
ParseEvent(event) ==
    LET m == FirstMissing(event, EventKeys)
    IN  IF m # 0 THEN Raise(KeyError(EventKeys[m]))
        ELSE LET input_data ==
                     IF event.body # ""
                     THEN IF "isBase64Encoded" \notin DOMAIN event
                          THEN Raise(KeyError("isBase64Encoded"))
                          ELSE IF event.isBase64Encoded
                          THEN Base64Query(event.body)
                          ELSE JsonLoads(event.body)
                     ELSE Return(<<>>)
             IN  IF input_data.kind = "raise" THEN input_data
                 ELSE Return(Context(event.httpMethod, event.path,
                                     event.queryStringParameters, event.headers,
                                     input_data.value))

\* ALBRouter.process_lambda_alb_event, under its catch_exception
ProcessEvent(rs, event) ==
    LET parsed == ParseEvent(event)
    IN  CatchException(
            IF parsed.kind = "raise" THEN parsed
            ELSE Serve(rs, event.path, event.httpMethod, parsed.value))

\* The call of a registered function made while the event is processed
ProcessCall(rs, event) ==
    LET parsed == ParseEvent(event)
    IN  IF parsed.kind = "raise" THEN NoCall
        ELSE ServeCall(rs, event.path, event.httpMethod, parsed.value)

----------------------------------------------------------------------------
(* The inputs of the model *)

\* The router accepts routes until it holds this many.
MaxRoutes == 2

Slash == "/"
T_a == <<Slash, "a">>
T_dot == <<Slash, "a", ".", "b">>
T_xp == <<Slash, "x", Slash, "<", "p", ">">>
T_dup == <<Slash, "<", "p", ">", Slash, "<", "p", ">">>
T_digit == <<Slash, "<", "1", ">">>
T_ctx == <<Slash, "x", Slash, "<">> \o ContextName \o <<">">>

Templates == {T_a, T_dot, T_xp, T_dup, T_digit, T_ctx}

GET == <<"G", "E", "T">>
POST == <<"P", "O", "S", "T">>
CallMethods == {GET, POST}

RouteMethodInputs == {MethodNone, MethodList(<<GET>>), MethodStr(GET)}

P_a == <<Slash, "a">>
P_A == <<Slash, "A">>
P_a_slash == <<Slash, "a", Slash>>
P_a_dot_b == <<Slash, "a", ".", "b">>
P_axb == <<Slash, "a", "x", "b">>
P_a_newline == <<Slash, "a", "\n">>
P_x_ab == <<Slash, "x", Slash, "a", "b">>
P_x_ab_d == <<Slash, "x", Slash, "a", "b", Slash, "d">>

Paths == {P_a, P_A, P_a_slash, P_a_dot_b, P_axb, P_a_newline, P_x_ab, P_x_ab_d}

PName == <<"p">>

\* def hello(), def hello_user(p), def update_user(p, context) and
\* def show_context(context), each answering with response(...)
Hello == Function("hello", {}, DoResponse)
HelloUser == Function("hello_user", {PName}, DoResponse)
UpdateUser == Function("update_user", {PName, ContextName}, DoResponse)
ShowContext == Function("show_context", {ContextName}, DoResponse)

Functions == {Hello, HelloUser, UpdateUser, ShowContext}

\* An event with every field process_lambda_alb_event reads
Event(method, path, body, encoded) ==
    [httpMethod |-> method, path |-> path, queryStringParameters |-> [q |-> "1"],
     headers |-> [host |-> "h"], body |-> body, isBase64Encoded |-> encoded]

\* Events that lack a field: no httpMethod; a body and no isBase64Encoded.
EventNoMethod == [path |-> P_a, queryStringParameters |-> <<>>, headers |-> <<>>,
                  body |-> "", isBase64Encoded |-> FALSE]
EventNoEncoded == [httpMethod |-> GET, path |-> P_a, queryStringParameters |-> <<>>,
                   headers |-> <<>>, body |-> JsonText]

MalformedEvents ==
    {EventNoMethod, EventNoEncoded,
     Event(POST, P_x_ab, "{", FALSE), Event(POST, P_x_ab, JsonText, TRUE)}

Events ==
    {Event(m, p, "", FALSE) : m \in CallMethods, p \in Paths}
    \cup {Event(POST, P_x_ab, JsonText, FALSE), Event(POST, P_x_ab, QueryTextBase64, TRUE)}
    \cup MalformedEvents

----------------------------------------------------------------------------
(* The router as a state machine: one action per call on it. *)

Init ==
    /\ routes = <<>>
    /\ op = "init"
    /\ request = <<>>
    /\ result = Return(None)
    /\ call = NoCall
    /\ threads = <<>>

\* app.route(route_str, route_methods)(f): route returns decorator, and
\* decorator compiles, parses the methods and appends.
Route(route_str, route_methods, f) ==
    /\ Len(routes) < MaxRoutes
    /\ LET route_pattern == CompileRoutePath(route_str)
           methods == RouteMethods(route_methods)
       IN  IF route_pattern.kind = "raise" \/ methods.kind = "raise"
           THEN /\ routes' = routes
                /\ result' = IF route_pattern.kind = "raise" THEN route_pattern
                             ELSE methods
           ELSE /\ routes' = Append(routes, [route_pattern |-> route_pattern.value,
                                             methods |-> methods.value,
                                             exec_function |-> f])
                /\ result' = Return(f)
    /\ op' = "route"
    /\ request' = [route_str |-> route_str, route_methods |-> route_methods, f |-> f]
    /\ call' = NoCall
    /\ UNCHANGED threads

\* A dispatch that would use up the registration list it scans: the first
\* entry is gone after the call.
ProcessConsuming(event) ==
    /\ result' = ProcessEvent(routes, event)
    /\ call' = ProcessCall(routes, event)
    /\ op' = "process"
    /\ request' = event
    /\ routes' = IF routes = <<>> THEN routes ELSE Tail(routes)
    /\ UNCHANGED threads

\* app.process_lambda_alb_event(event)
Process(event) ==
    /\ result' = ProcessEvent(routes, event)
    /\ call' = ProcessCall(routes, event)
    /\ op' = "process"
    /\ request' = event
    /\ UNCHANGED <<routes, threads>>

Next ==
    \/ \E t \in Templates, m \in RouteMethodInputs, f \in Functions : Route(t, m, f)
    \/ \E e \in Events : Process(e)

Spec == Init /\ [][Next]_vars

----------------------------------------------------------------------------
(* The same router with functions that fail: what serve and                *)
(* process_lambda_alb_event make of each way a registered function ends.   *)

TypedClasses == {cls \in HTTPClasses : ClassCode(cls) # None}

\* def f(): raise cls(message)
Raises(cls, message) == Function(cls, {}, DoRaise(cls, Some(message)))
\* def f(): abort(code, message)
Aborts(name, code, message) == Function(name, {}, DoAbort(code, Some(message)))
\* def f(): pass
ReturnsNone == Function("returns_none", {}, DoReturnNone)

OutcomeFunctions ==
    {Hello, ReturnsNone}
    \cup {Raises(cls, "nope") : cls \in TypedClasses}
    \cup {Raises("HTTPException", "boom"), Raises("ValueError", "bad"),
          Raises("SystemExit", "bye")}
    \cup {Aborts("abort_404", 404, "gone"), Aborts("abort_418", 418, "teapot")}

OutcomeTemplates == {T_a, T_dup}

OutcomeEvents ==
    {Event(GET, P_a, "", FALSE), Event(GET, P_A, "", FALSE)} \cup MalformedEvents

NextOutcome ==
    \/ \E t \in OutcomeTemplates, f \in OutcomeFunctions : Route(t, MethodNone, f)
    \/ \E e \in OutcomeEvents : Process(e)

SpecOutcome == Init /\ [][NextOutcome]_vars

----------------------------------------------------------------------------
(* One router shared by callers that run concurrently.  Each caller is a   *)
(* thread inside route(...)(f) or process_lambda_alb_event(event); a step   *)
(* is what a thread does between two accesses to self.routes, the only      *)
(* attribute of the router.  The list operations themselves (append, the    *)
(* list iterator's next) are atomic in the interpreter.                     *)

Threads == {"t1", "t2"}

\* The local variables of a thread: pc is where it stands, i counts the
\* entries the list iterator of __find_call_match has handed out.
Idle ==
    [pc |-> "idle", op |-> "none", request |-> <<>>, context |-> None, i |-> 0,
     found |-> Return(None), entry |-> None, result |-> Return(None), call |-> NoCall]

ConcurrentRegistrations ==
    {[route_str |-> T_xp, f |-> UpdateUser],
     [route_str |-> T_a, f |-> Hello],
     [route_str |-> T_dup, f |-> Hello]}

ConcurrentEvents ==
    {Event(POST, P_x_ab, JsonText, FALSE), Event(POST, P_x_ab_d, QueryTextBase64, TRUE),
     Event(GET, P_a, "", FALSE), EventNoEncoded}

\* Registrations that have compiled their template and not yet appended
Appending == {t \in Threads : threads[t].pc = "append"}

InitConcurrent ==
    /\ routes = <<>>
    /\ op = "init"
    /\ request = <<>>
    /\ result = Return(None)
    /\ call = NoCall
    /\ threads = [t \in Threads |-> Idle]

\* A thread enters decorator(f): the template is compiled and the methods
\* parsed into locals.
RouteBegin(t, route_str, f) ==
    /\ threads[t].pc \in {"idle", "done"}
    /\ Len(routes) + Cardinality(Appending) < MaxRoutes
    /\ LET route_pattern == CompileRoutePath(route_str)
           methods == RouteMethods(MethodNone)
       IN  threads' = [threads EXCEPT ![t] =
               [Idle EXCEPT !.pc = "append", !.op = "route",
                            !.request = [route_str |-> route_str, f |-> f],
                            !.entry = Some([route_pattern |-> route_pattern.value,
                                            methods |-> methods.value,
                                            exec_function |-> f])]]
    /\ UNCHANGED <<routes, op, request, result, call>>

\* self.routes.append((route_pattern, methods, f)); return f
RouteAppend(t) ==
    /\ threads[t].pc = "append"
    /\ routes' = Append(routes, threads[t].entry[1])
    /\ threads' = [threads EXCEPT ![t].pc = "done",
                                  ![t].result = Return(threads[t].request.f)]
    /\ UNCHANGED <<op, request, result, call>>

\* A thread enters process_lambda_alb_event(event): the fields are read, the
\* body decoded and the Context built, all in locals; an exception on the way
\* ends the call in catch_exception.
ProcessBegin(t, event) ==
    /\ threads[t].pc \in {"idle", "done"}
    /\ LET parsed == ParseEvent(event)
       IN  threads' = [threads EXCEPT ![t] =
               IF parsed.kind = "raise"
               THEN [Idle EXCEPT !.pc = "done", !.op = "process", !.request = event,
                                 !.result = CatchException(parsed)]
               ELSE [Idle EXCEPT !.pc = "scan", !.op = "process", !.request = event,
                                 !.context = Some(parsed.value)]]
    /\ UNCHANGED <<routes, op, request, result, call>>

\* One turn of the for loop of __find_call_match: the iterator hands out the
\* next entry of self.routes as it is now, or ends the loop.
FindNext(t) ==
    /\ threads[t].pc = "scan"
    /\ LET i == threads[t].i
           event == threads[t].request
       IN  IF i >= Len(routes)
           THEN threads' = [threads EXCEPT ![t].pc = "serve",
                                           ![t].found = CatchException(Return(None))]
           ELSE LET turn == FindFrom(<<routes[i + 1]>>, 1, event.path, event.httpMethod)
                IN  IF turn = Return(None)
                    THEN threads' = [threads EXCEPT ![t].i = i + 1]
                    ELSE threads' = [threads EXCEPT ![t].i = i + 1,
                                                    ![t].pc = "serve",
                                                    ![t].found = CatchException(turn)]
    /\ UNCHANGED <<routes, op, request, result, call>>

\* A router that would keep the context of a call in an attribute of its own:
\* the registered function gets the context that any call in progress put there.
ExecuteShared(t) ==
    /\ threads[t].pc = "serve"
    /\ \E u \in Threads :
          /\ threads[u].context # None
          /\ LET context == threads[u].context[1]
                 found == threads[t].found
             IN  threads' = [threads EXCEPT
                     ![t].pc = "done",
                     ![t].call = CallOf(found, context),
                     ![t].result = CatchException(CatchException(ServeBody(found, context)))]
    /\ UNCHANGED <<routes, op, request, result, call>>

\* The rest of serve: the registered function is called with the args and the
\* context of this call, and what it gives goes back through the
\* catch_exception of serve and of process_lambda_alb_event.
Execute(t) ==
    /\ threads[t].pc = "serve"
    /\ LET context == threads[t].context[1]
           found == threads[t].found
       IN  threads' = [threads EXCEPT
               ![t].pc = "done",
               ![t].call = CallOf(found, context),
               ![t].result = CatchException(CatchException(ServeBody(found, context)))]
    /\ UNCHANGED <<routes, op, request, result, call>>

NextConcurrent ==
    \/ \E t \in Threads, r \in ConcurrentRegistrations : RouteBegin(t, r.route_str, r.f)
    \/ \E t \in Threads : RouteAppend(t)
    \/ \E t \in Threads, e \in ConcurrentEvents : ProcessBegin(t, e)
    \/ \E t \in Threads : FindNext(t)
    \/ \E t \in Threads : Execute(t)

SpecConcurrent == InitConcurrent /\ [][NextConcurrent]_vars

----------------------------------------------------------------------------
(* What the properties below speak of *)

\* The last call was process_lambda_alb_event on an event that has every
\* field and a body that decodes.
Dispatched == op = "process" /\ ParseEvent(request).kind = "return"

\* The i-th registration's matcher matches the path and its methods are empty
\* or hold the method, compared without case.
Qualifies(i, path, method) ==
    /\ IsPattern(routes[i].route_pattern)
    /\ PatternMatch(routes[i].route_pattern, path).matched
    /\ \/ routes[i].methods = <<>>
       \/ StrLower(method) \in Range(routes[i].methods)

\* The registrations that qualify for the request, and the first of them.
Qualifying == {i \in DOMAIN routes : Qualifies(i, request.path, request.httpMethod)}
Winner == CHOOSE i \in Qualifying : \A j \in Qualifying : i <= j

StatusIs(code) ==
    /\ result.kind = "return"
    /\ IsEnvelope(result.value)
    /\ result.value.statusCode = Some(code)

\* The registered function was called and its body ended by raising e.
FunctionRaised(e) ==
    /\ call.made
    /\ call.entered
    /\ FunctionBody(call.f, call.args, call.context) = Raise(e)

\* C1: dispatch invokes the handler of the lowest-index registration whose
\* matcher matches the path and whose methods are empty or contain the
\* request method without regard to case; registrations that match the path
\* and not the method are passed over.
C1_FirstQualifyingInvoked ==
    (Dispatched /\ Qualifying # {}) =>
        /\ call.made
        /\ call.f = routes[Winner].exec_function
        /\ call.args = PatternMatch(routes[Winner].route_pattern, request.path).groupdict

C3_NoneQualifiesIs404 ==
    (Dispatched /\ Qualifying = {}) => StatusIs(404) /\ ~call.made

\* C4: a handler that raises a typed failure of the taxonomy with message m
\* gets the envelope of that failure's code and description, text/plain, body m.
C4_TypedFailureEnvelope ==
    op = "process" =>
        \A cls \in TypedClasses, m \in {"nope", "gone"} :
            FunctionRaised(Exc(cls, Some(m))) =>
                /\ result = Return(Envelope(ClassCode(cls), ClassDescription(cls),
                                            FALSE, TextPlain, m))
                /\ result.value.statusCode[1] \in {400, 401, 403, 404, 409, 500, 501, 502}
                /\ cls = "Forbidden" =>
                      /\ result.value.statusCode = Some(403)
                      /\ result.value.statusDescription = Some("403 Forbidden")

\* C4, witness: Forbidden("nope") was raised and a 403 envelope came back.
C4_Witness ==
    /\ op = "process"
    /\ FunctionRaised(Exc("Forbidden", Some("nope")))
    /\ StatusIs(403)
    /\ result.value.body = "nope"

\* C5: a handler that raises an error that is no typed failure with a
\* taxonomy code gets a 500 envelope, "Server Error", with the error's text.
C5_OtherErrorIs500 ==
    op = "process" =>
        \A e \in {Exc("HTTPException", Some("boom")), Exc("ValueError", Some("bad"))} :
            (FunctionRaised(e) /\ call.f.do.kind = "raise") =>
                result = Return(Envelope(Some(500), Some("Server Error"), FALSE,
                                         TextPlain, ExcStr(e)))

\* C6: abort with a code outside the taxonomy ends in a 500 envelope, and
\* with a code of the taxonomy in the envelope of that code.
C6_AbortUnknownCodeIs500 ==
    (op = "process" /\ call.made /\ call.entered /\ call.f.do.kind = "abort") =>
        IF call.f.do.code \in {400, 401, 403, 404, 409, 500, 501, 502}
        THEN StatusIs(call.f.do.code)
        ELSE StatusIs(500)

\* A compiled template that is literal characters and then one placeholder.
SingleTrailingPlaceholder(toks) ==
    /\ Len(toks) >= 2
    /\ toks[Len(toks)].t = "group"
    /\ \A i \in 1..(Len(toks) - 1) : toks[i].t = "char" /\ toks[i].c # "."

\* The characters of the first n tokens
LiteralText(toks, n) == [i \in 1..n |-> toks[i].c]

\* C7: a template /x/<p> matches /x/abc with exactly {p: "abc"} and does not
\* match /x/abc/def: the placeholder stops at the next "/".
C7_PlaceholderIsOneSegment ==
    (/\ Dispatched
     /\ Len(routes) = 1
     /\ IsPattern(routes[1].route_pattern)
     /\ SingleTrailingPlaceholder(routes[1].route_pattern.toks)
     /\ routes[1].methods = <<>>
     /\ routes[1].exec_function = HelloUser) =>
        LET toks == routes[1].route_pattern.toks
            n == Len(toks) - 1
            path == request.path
            rest == SubSeq(path, n + 1, Len(path))
        IN  IF /\ Len(path) > n
               /\ SubSeq(path, 1, n) = LiteralText(toks, n)
               /\ Slash \notin Range(rest)
            THEN call.made /\ call.args = {<<toks[n + 1].name, rest>>}
            ELSE ~call.made /\ StatusIs(404)

\* C8: a template without placeholders matches exactly the path that is the
\* same string, character for character.
C8_LiteralTemplateMatchesItself ==
    (/\ Dispatched
     /\ Len(routes) = 1
     /\ IsPattern(routes[1].route_pattern)
     /\ \A i \in DOMAIN routes[1].route_pattern.toks :
            routes[1].route_pattern.toks[i].t = "char"
     /\ routes[1].methods = <<>>) =>
        LET toks == routes[1].route_pattern.toks
        IN  call.made <=> request.path = LiteralText(toks, Len(toks))

\* C9: registering a template whose placeholder name repeats or is malformed
\* fails, and the caller of the registration gets InvalidRouteTemplate.
C9_InvalidTemplateRaises ==
    (op = "route" /\ ReCompile(ReSub(request.route_str, 1)).kind = "raise") =>
        /\ result.kind = "raise"
        /\ result.exc.cls = "InvalidRouteTemplate"

\* The function declares the placeholders of its route and, at most, context
\* besides.
Declares(f, args) ==
    f.params = Names(args) \cup (IF WantsContext(f) THEN {ContextName} ELSE {})

\* C10: the winning handler receives exactly the extracted path parameters,
\* by name, and the context built from the event if and only if it declares
\* a parameter named context.
C10_ParametersAndContext ==
    (/\ Dispatched
     /\ call.made
     /\ Declares(call.f, call.args)
     /\ call.f.do.kind = "response") =>
        /\ call.args = PatternMatch(routes[Winner].route_pattern, request.path).groupdict
        /\ result = Return(ResponseOK(Received(call.args,
                        IF WantsContext(call.f)
                        THEN Some(ParseEvent(request).value)
                        ELSE None)))

\* C11: a dispatch, whether it ends in the result of a registered function, a
\* 404 or a 500, leaves the registration list as it was (same entries, same
\* order), and a dispatch that follows a dispatch of the identical event
\* returns the identical value; the value a dispatch returns is the one the
\* same event gets from the list as the dispatch left it.
C11_DispatchLeavesRoutes ==
    [][op' = "process" =>
           /\ routes' = routes
           /\ result' = ProcessEvent(routes', request')
           /\ (op = "process" /\ request' = request) => result' = result]_vars

\* A list of two registrations, the first of them one whose template did not
\* compile, has been scanned by a dispatch that ended in a 500.
C11_Witness ==
    /\ op = "process"
    /\ Len(routes) = 2
    /\ ~IsPattern(routes[1].route_pattern)
    /\ Dispatched
    /\ StatusIs(500)

\* What a dispatch running in thread t has in its locals agrees with what the
\* same event gets, alone, from the entries that its scan has taken from the
\* registration list.
OwnRequestOnly(t) ==
    LET local == threads[t]
        event == local.request
        seen == SubSeq(routes, 1, local.i)
        parsed == ParseEvent(event)
    IN  local.op = "process" =>
            /\ local.i <= Len(routes)
            /\ local.pc \in {"scan", "serve", "done"}
            /\ parsed.kind = "return" => local.context = Some(parsed.value)
            /\ parsed.kind = "raise" => local.pc = "done" /\ local.context = None
            /\ local.pc = "serve" =>
                   local.found = FindCallMatch(seen, event.path, event.httpMethod)
            /\ local.pc = "done" =>
                   /\ local.result = ProcessEvent(seen, event)
                   /\ local.call = ProcessCall(seen, event)

\* C12: with several callers registering and dispatching concurrently on one
\* router, under every interleaving the extracted parameters, the context and
\* the returned value of each dispatch are those its own event gets from the
\* registration list (the entries its scan took from it), and a step of one
\* caller changes the locals of no other caller and nothing in the router but
\* the registration list, which only grows at its end.
C12_ConcurrentCallsIsolated ==
    /\ [](\A t \in Threads : OwnRequestOnly(t))
    /\ [][/\ \A t, u \in Threads :
               (t # u /\ threads'[t] # threads[t]) => threads'[u] = threads[u]
           /\ Len(routes') >= Len(routes)
           /\ SubSeq(routes', 1, Len(routes)) = routes]_vars

\* One dispatch has found its route and is about to call the function while
\* the other has ended with other parameters and another context, and a
\* registration was appended after the scan of the first had ended.
C12_Witness ==
    \E t, u \in Threads :
        /\ threads[t].op = "process" /\ threads[t].pc = "serve"
        /\ threads[t].found.kind = "return" /\ IsCallMatch(threads[t].found.value)
        /\ threads[u].op = "process" /\ threads[u].pc = "done"
        /\ threads[u].call.made /\ threads[u].call.entered
        /\ threads[u].call.args # threads[t].found.value.args
        /\ threads[u].context # threads[t].context
        /\ threads[u].result.kind = "return"
        /\ threads[u].result.value.statusCode = Some(200)
        /\ Len(routes) > threads[t].i

\* C13: after any sequence of registrations every entry of the registration
\* list holds a compiled matcher as its first component, and so a request
\* whose path and method match a registered route gets the result of that
\* route's function, whatever was registered before it.
C13_EntriesHoldMatchers ==
    /\ \A i \in DOMAIN routes : IsPattern(routes[i].route_pattern)
    /\ (Dispatched /\ Qualifying # {}) =>
           /\ call.made
           /\ call.f = routes[Winner].exec_function
           /\ call.entered => result = FunctionBody(call.f, call.args, call.context)

====
